---- MODULE Spec2Model ----
(***************************************************************************)
(* A model of eventer.py: the registry _events, the promotion event(f),    *)
(* the dispatch wrapper calls_subs, the three registration operations      *)
(* run_before / run_after / condition_for (decorator and direct form).     *)
(*                                                                         *)
(* Callables are identified by their id(): an integer.  Module-level       *)
(* functions (StaticFns) live for ever at fixed ids; event wrappers and    *)
(* locally defined functions live in a small arena of addresses (Addrs)    *)
(* that the interpreter frees once nothing refers to them and hands out    *)
(* again to later objects.                                                 *)
(***************************************************************************)
EXTENDS Integers, Sequences, FiniteSets, TLC

\* ------------------------------------------------------------------ bounds
\* number of addresses of the arena that holds wrappers and local functions
NAddr == 2
\* budget: number of registry keys plus the total length of all hook lists
MaxSize == 3
\* depth of nested dispatches after which the interpreter raises RecursionError
MaxDepth == 2

Addrs == 1..NAddr

\* ------------------------------------------------------------------ values
None == [t |-> "none", v |-> 0]
BoolV(b) == [t |-> "bool", v |-> IF b THEN 1 ELSE 0]
IntV(n) == [t |-> "int", v |-> n]

\* Python truth value of a returned object, as `not sub(...)` tests it
Truthy(val) == val.t # "none" /\ val.v # 0

Ret(val) == [kind |-> "ret", val |-> val, exc |-> ""]
Raise(e) == [kind |-> "raise", val |-> None, exc |-> e]
NoOutcome == [kind |-> "none", val |-> None, exc |-> ""]

\* ------------------------------------------------------- argument lists
\* (*args, **kwargs) of a call: positional values and keyword pairs
MkArgs(p, k) == [pos |-> p, kw |-> k]
ArgSets == { MkArgs(<<1>>, <<>>), MkArgs(<<2>>, <<>>),
             MkArgs(<<1>>, << <<"y", 15>> >>) }

\* ------------------------------------------------- the payload functions
\* module-level functions handed to the library as bodies and hooks
StaticFns == 101..105
\* voidargs(f) for a module-level f: a function object of its own
Voided(f) == f + 100
Inner(v) == v - 100
VoidedFns == {Voided(102), Voided(105)}
Name(f) == CASE f = 101 -> "sub1"
             [] f = 102 -> "is_even"
             [] f = 103 -> "raiser"
             [] f = 104 -> "foo"
             [] f = 105 -> "return5"
             [] f = Voided(102) -> "voided_is_even"
             [] f = Voided(105) -> "voided_return5"
             [] OTHER -> "bar"

\* foo(x, y=5): return x * 2 + y
foo(args) ==
  IF Len(args.pos) = 1 /\ args.kw = <<>> THEN Ret(IntV(args.pos[1] * 2 + 5))
  ELSE IF Len(args.pos) = 1 /\ Len(args.kw) = 1 /\ args.kw[1][1] = "y"
       THEN Ret(IntV(args.pos[1] * 2 + args.kw[1][2]))
  ELSE IF Len(args.pos) = 2 /\ args.kw = <<>>
       THEN Ret(IntV(args.pos[1] * 2 + args.pos[2]))
  ELSE Raise("TypeError")

\* is_even(arg): return arg % 2 == 0
is_even(args) ==
  IF Len(args.pos) = 1 /\ args.kw = <<>> THEN Ret(BoolV(args.pos[1] % 2 = 0))
  ELSE Raise("TypeError")

\* return5(): return 5
return5(args) ==
  IF args.pos = <<>> /\ args.kw = <<>> THEN Ret(IntV(5)) ELSE Raise("TypeError")

RECURSIVE Apply(_, _)
\* voided(*args, **kwargs): f() -- the call voided makes and how voided ends
NoArgs == MkArgs(<<>>, <<>>)
voidedReturning(f, args) ==
  LET c == [fn |-> f, args |-> NoArgs, out |-> Apply(Name(f), NoArgs)]
  IN [calls |-> <<c>>, out |-> c.out]
voided(f, args) ==
  LET c == [fn |-> f, args |-> NoArgs, out |-> Apply(Name(f), NoArgs)]
  IN [calls |-> <<c>>, out |-> IF c.out.kind = "raise" THEN c.out ELSE Ret(None)]

\* what a plain (not promoted) function does when called with args
Apply(name, args) ==
  CASE name = "sub1" -> Ret(None)
    [] name = "is_even" -> is_even(args)
    [] name = "raiser" -> Raise("ValueError")
    [] name = "foo" -> foo(args)
    [] name = "return5" -> return5(args)
    [] name = "voided_is_even" -> voided(102, args).out
    [] name = "voided_return5" -> voided(105, args).out
    [] OTHER -> Ret(None)

Bodies == {104}
HookFns == 101..103
\* hooks that call a registration operation while they run:
\* def hook(*args, **kwargs): run_before(E, sub1); return True
\* (and the same with run_after, condition_for), E being the event they
\* are called by
RegisteringFns == 111..113
RegOpOf(f) ==
  CASE f = 111 -> "run_before" [] f = 112 -> "run_after" [] OTHER -> "condition_for"

\* ------------------------------------------------------------------ state
VARIABLES
  heap,      \* arena: address -> the object living there
  _events,   \* the registry: id -> <<before, after, conditions>>
  stack,     \* the dispatches in progress, innermost last
  deco,      \* the decorator closure the caller holds, if any
  last       \* outcome of the last call the caller made into the library

vars == <<heap, _events, stack, deco, last>>

Free == [kind |-> "free", f |-> 0]
Wrapper(f) == [kind |-> "event", f |-> f]
LocalFn == [kind |-> "fn", f |-> 0]

\* deco: which operation built the closure and the ev it closed over
NoDeco == [op |-> "", ev |-> 0]
\* last: the operation called, its ev, the subscriber passed (0: none), the
\* exception it raised ("": none) and the kind of object it returned
Idle == [op |-> "idle", ref |-> 0, fn |-> 0, exc |-> "", tag |-> "none"]

EmptyRecord == << <<>>, <<>>, <<>> >>

Init ==
  /\ heap = [a \in Addrs |-> Free]
  /\ _events = <<>>
  /\ stack = <<>>
  /\ deco = NoDeco
  /\ last = Idle

\* ------------------------------------------------------------- the heap
Live(a) == heap[a].kind # "free"
IsEvent(ref) == ref \in Addrs /\ heap[ref].kind = "event"
\* the callables a caller passes as ev: a module-level function (never
\* promoted) or any live object of the arena
Targets == {101} \cup {a \in Addrs : Live(a)}

RECURSIVE SumLen(_, _)
SumLen(reg, ks) ==
  IF ks = {} THEN 0
  ELSE LET k == CHOOSE x \in ks : TRUE
       IN Len(reg[k][1]) + Len(reg[k][2]) + Len(reg[k][3]) + SumLen(reg, ks \ {k})
Size == Cardinality(DOMAIN _events) + SumLen(_events, DOMAIN _events)

InList(ref, l) == \E n \in 1..Len(l) : l[n] = ref
\* an object is kept alive by a hook list, by a wrapper whose body it is,
\* by a decorator closure (its ev), or by a running dispatch
Referenced(a) ==
  \/ \E k \in DOMAIN _events : \E n \in 1..3 : InList(a, _events[k][n])
  \/ \E b \in Addrs : heap[b].kind = "event" /\ heap[b].f = a
  \/ deco.ev = a
  \/ \E n \in 1..Len(stack) : stack[n].ev = a

\* --------------------------------------------------------------- event(f)
\* _events[id(calls_subs)] = ([], [], []): a new key, or the key of a dead
\* wrapper whose address the new wrapper was given
SetRecordKeep(reg, a, rec) ==
  [k \in (DOMAIN reg) \cup {a} |-> IF k \in DOMAIN reg THEN reg[k] ELSE rec]
SetRecord(reg, a, rec) ==
  [k \in (DOMAIN reg) \cup {a} |-> IF k = a THEN rec ELSE reg[k]]

PromoteUnrecorded(f, a) ==
  /\ stack = <<>> /\ deco = NoDeco /\ last = Idle
  /\ ~Live(a)
  /\ a \in DOMAIN _events \/ Size < MaxSize
  /\ heap' = [heap EXCEPT ![a] = Wrapper(f)]
  /\ last' = [Idle EXCEPT !.op = "event", !.ref = a, !.tag = "event"]
  /\ UNCHANGED <<_events, stack, deco>>
Promote(f, a) ==
  /\ stack = <<>> /\ deco = NoDeco /\ last = Idle
  /\ ~Live(a)
  /\ a \in DOMAIN _events \/ Size < MaxSize
  /\ heap' = [heap EXCEPT ![a] = Wrapper(f)]
  /\ _events' = SetRecord(_events, a, EmptyRecord)
  /\ last' = [Idle EXCEPT !.op = "event", !.ref = a, !.tag = "event"]
  /\ UNCHANGED <<stack, deco>>

\* a local def that is not promoted (bar in the tests)
Define(a) ==
  /\ stack = <<>> /\ deco = NoDeco /\ last = Idle
  /\ ~Live(a)
  /\ heap' = [heap EXCEPT ![a] = LocalFn]
  /\ last' = Idle
  /\ UNCHANGED <<_events, stack, deco>>

\* the interpreter frees an object nothing refers to any more; _events is
\* keyed by the integer id and keeps the key
Drop(a) ==
  /\ stack = <<>> /\ deco = NoDeco /\ last = Idle
  /\ Live(a) /\ ~Referenced(a)
  /\ heap' = [heap EXCEPT ![a] = Free]
  /\ last' = Idle
  /\ UNCHANGED <<_events, stack, deco>>

\* ------------------------------------ run_before, run_after, condition_for
RegOps == {"run_before", "run_after", "condition_for"}
\* _events[id(ev)][0] / [1] / [2], counted from 1
ListIndexSwapped(op) ==
  CASE op = "run_before" -> 2 [] op = "run_after" -> 1 [] OTHER -> 3
ListIndex(op) ==
  CASE op = "run_before" -> 1 [] op = "run_after" -> 2 [] OTHER -> 3

\* id(ev) in _events
Registered(ev) == ev \in DOMAIN _events

\* _events[id(ev)][k].append(f)
AppendHookOnce(reg, ev, k, f) ==
  [reg EXCEPT ![ev][k] = IF InList(f, @) THEN @ ELSE Append(@, f)]
AppendHookAll(reg, ev, k, f) ==
  [x \in DOMAIN reg |-> [reg[x] EXCEPT ![k] = Append(@, f)]]
AppendHook(reg, ev, k, f) == [reg EXCEPT ![ev][k] = Append(@, f)]

RaisedNotRegistered(op, ev, f) ==
  [Idle EXCEPT !.op = op, !.ref = ev, !.fn = f, !.exc = "EventNotRegistered"]

\* run_before(ev, fn) with fn given: decorator(fn), then return decorator
RegisterDirectReturnsFn(op, ev, fn) ==
  /\ stack = <<>> /\ deco = NoDeco /\ last = Idle
  /\ IF ~Registered(ev)
     THEN /\ last' = RaisedNotRegistered(op, ev, fn)
          /\ deco' = NoDeco
          /\ UNCHANGED _events
     ELSE /\ Size < MaxSize
          /\ _events' = AppendHook(_events, ev, ListIndex(op), fn)
          /\ deco' = NoDeco
          /\ last' = [Idle EXCEPT !.op = op, !.ref = ev, !.fn = fn, !.tag = "fn"]
  /\ UNCHANGED <<heap, stack>>
RegisterDirect(op, ev, fn) ==
  /\ stack = <<>> /\ deco = NoDeco /\ last = Idle
  /\ IF ~Registered(ev)
     THEN /\ last' = RaisedNotRegistered(op, ev, fn)
          /\ deco' = NoDeco
          /\ UNCHANGED _events
     ELSE /\ Size < MaxSize
          /\ _events' = AppendHook(_events, ev, ListIndex(op), fn)
          /\ deco' = [op |-> op, ev |-> ev]
          /\ last' = [Idle EXCEPT !.op = op, !.ref = ev, !.fn = fn,
                                  !.tag = "decorator"]
  /\ UNCHANGED <<heap, stack>>

\* run_before(ev) without fn: only builds the closure
MakeDecoratorChecked(op, ev) ==
  /\ stack = <<>> /\ deco = NoDeco /\ last = Idle
  /\ IF ~Registered(ev)
     THEN /\ last' = RaisedNotRegistered(op, ev, 0)
          /\ deco' = NoDeco
     ELSE /\ deco' = [op |-> op, ev |-> ev]
          /\ last' = [Idle EXCEPT !.op = op, !.ref = ev, !.tag = "decorator"]
  /\ UNCHANGED <<heap, _events, stack>>
MakeDecorator(op, ev) ==
  /\ stack = <<>> /\ deco = NoDeco /\ last = Idle
  /\ deco' = [op |-> op, ev |-> ev]
  /\ last' = [Idle EXCEPT !.op = op, !.ref = ev, !.tag = "decorator"]
  /\ UNCHANGED <<heap, _events, stack>>

\* decorator(f): the returned closure applied to a subscriber
ApplyDecorator(g) ==
  /\ stack = <<>>
  /\ deco # NoDeco
  /\ IF ~Registered(deco.ev)
     THEN /\ last' = RaisedNotRegistered(deco.op, deco.ev, g)
          /\ UNCHANGED _events
     ELSE /\ Size < MaxSize
          /\ _events' = AppendHook(_events, deco.ev, ListIndex(deco.op), g)
          /\ last' = [Idle EXCEPT !.op = deco.op, !.ref = deco.ev, !.fn = g,
                                  !.tag = "fn"]
  /\ UNCHANGED <<heap, stack, deco>>

\* the caller lets go of the decorator closure
ReleaseDecorator ==
  /\ stack = <<>>
  /\ deco # NoDeco
  /\ deco' = NoDeco
  /\ last' = Idle
  /\ UNCHANGED <<heap, _events, stack>>

\* the caller has seen the outcome of its call and goes on
Resume ==
  /\ stack = <<>> /\ deco = NoDeco
  /\ last # Idle
  /\ last' = Idle
  /\ UNCHANGED <<heap, _events, stack, deco>>

\* ------------------------------------------------- calls_subs: a dispatch
\* a dispatch in progress: the wrapper, its (*args, **kwargs), the loop it is
\* in, the number of items its iterator has yielded, r, the calls it has
\* made so far and, once it has ended, how it ended
\* the first statement looks the record up: a missing key is a KeyError
NewFrame(ev, args) ==
  IF ev \in DOMAIN _events
  THEN [ev |-> ev, args |-> args, pc |-> "cond", i |-> 0, r |-> None,
        calls |-> <<>>, out |-> NoOutcome, rec0 |-> _events[ev]]
  ELSE [ev |-> ev, args |-> args, pc |-> "done", i |-> 0, r |-> None,
        calls |-> <<>>, out |-> Raise("KeyError"), rec0 |-> EmptyRecord]

\* before, after, conditions = _events[id(calls_subs)]
PhaseIndex(pc) ==
  CASE pc = "before" -> 1 [] pc = "after" -> 2 [] OTHER -> 3
\* the list the loop of fr iterates: the list object itself, not a copy
LoopListSnapshot(fr) == fr.rec0[PhaseIndex(fr.pc)]
LoopList(fr) == _events[fr.ev][PhaseIndex(fr.pc)]

InLoop(fr) == fr.pc \in {"cond", "before", "after"}
HasNext(fr) == InLoop(fr) /\ fr.i < Len(LoopList(fr))
CalleeReversed(fr) ==
  IF fr.pc = "body" THEN heap[fr.ev].f
  ELSE LoopList(fr)[Len(LoopList(fr)) - fr.i]
Callee(fr) == IF fr.pc = "body" THEN heap[fr.ev].f ELSE LoopList(fr)[fr.i + 1]

\* sub(*args, **kwargs): what the callee is handed
PassArgsPositional(args) ==
  MkArgs(args.pos \o [n \in 1..Len(args.kw) |-> args.kw[n][2]], <<>>)
PassArgs(args) == args

\* the record of the dispatch's calls: which loop, which callee, the
\* arguments handed over and, once the call has ended, how it ended
Issue(fr, callee) ==
  [fr EXCEPT !.calls = Append(@, [ph |-> fr.pc, fn |-> callee,
                                  args |-> PassArgs(fr.args),
                                  out |-> NoOutcome])]
Ended(fr, out) ==
  LET n == Len(fr.calls)
  IN [fr EXCEPT !.calls = [fr.calls EXCEPT ![n] = [fr.calls[n] EXCEPT !.out = out]]]

\* the statement after the call, given what the call produced
SettleSwallow(fr, out) ==
  IF out.kind = "raise" /\ fr.pc = "before" THEN [fr EXCEPT !.i = @ + 1]
  ELSE IF out.kind = "raise" THEN [fr EXCEPT !.pc = "done", !.out = out]
  ELSE CASE fr.pc = "cond" ->
              IF Truthy(out.val) THEN [fr EXCEPT !.i = @ + 1]
              ELSE [fr EXCEPT !.pc = "done", !.out = Ret(None)]
         [] fr.pc = "body" -> [fr EXCEPT !.r = out.val, !.pc = "after", !.i = 0]
         [] OTHER -> [fr EXCEPT !.i = @ + 1]
SettleHookResult(fr, out) ==
  IF out.kind = "raise" THEN [fr EXCEPT !.pc = "done", !.out = out]
  ELSE CASE fr.pc = "cond" ->
              IF Truthy(out.val) THEN [fr EXCEPT !.i = @ + 1]
              ELSE [fr EXCEPT !.pc = "done", !.out = Ret(None)]
         [] fr.pc = "body" -> [fr EXCEPT !.r = out.val, !.pc = "after", !.i = 0]
         [] fr.pc = "after" -> [fr EXCEPT !.i = @ + 1, !.r = out.val]
         [] OTHER -> [fr EXCEPT !.i = @ + 1]
SettleNoVeto(fr, out) ==
  IF out.kind = "raise" THEN [fr EXCEPT !.pc = "done", !.out = out]
  ELSE CASE fr.pc = "body" -> [fr EXCEPT !.r = out.val, !.pc = "after", !.i = 0]
         [] OTHER -> [fr EXCEPT !.i = @ + 1]
SettleLateResult(fr, out) ==
  IF out.kind = "raise" /\ fr.pc = "after" THEN [fr EXCEPT !.pc = "done", !.out = Ret(fr.r)]
  ELSE IF out.kind = "raise" THEN [fr EXCEPT !.pc = "done", !.out = out]
  ELSE CASE fr.pc = "cond" ->
              IF Truthy(out.val) THEN [fr EXCEPT !.i = @ + 1]
              ELSE [fr EXCEPT !.pc = "done", !.out = Ret(None)]
         [] fr.pc = "body" -> [fr EXCEPT !.r = out.val, !.pc = "after", !.i = 0]
         [] OTHER -> [fr EXCEPT !.i = @ + 1]
SettleVetoAtEnd(fr, out) ==
  IF out.kind = "raise" THEN [fr EXCEPT !.pc = "done", !.out = out]
  ELSE CASE fr.pc = "cond" ->
              IF Truthy(out.val) \/ fr.i + 1 < Len(_events[fr.ev][3])
              THEN [fr EXCEPT !.i = @ + 1]
              ELSE [fr EXCEPT !.pc = "done", !.out = Ret(None)]
         [] fr.pc = "body" -> [fr EXCEPT !.r = out.val, !.pc = "after", !.i = 0]
         [] OTHER -> [fr EXCEPT !.i = @ + 1]
Settle(fr, out) ==
  IF out.kind = "raise" THEN [fr EXCEPT !.pc = "done", !.out = out]
  ELSE CASE fr.pc = "cond" ->
              IF Truthy(out.val) THEN [fr EXCEPT !.i = @ + 1]
              ELSE [fr EXCEPT !.pc = "done", !.out = Ret(None)]
         [] fr.pc = "body" -> [fr EXCEPT !.r = out.val, !.pc = "after", !.i = 0]
         [] OTHER -> [fr EXCEPT !.i = @ + 1]

\* a for loop whose iterator is exhausted falls through to the next statement
FallThroughAgain(fr) ==
  CASE fr.pc = "cond" -> [fr EXCEPT !.pc = "before", !.i = 0]
    [] fr.pc = "before" -> [fr EXCEPT !.pc = "body", !.i = 0]
    [] OTHER -> [fr EXCEPT !.pc = "body", !.i = 0]
FallThrough(fr) ==
  CASE fr.pc = "cond" -> [fr EXCEPT !.pc = "before", !.i = 0]
    [] fr.pc = "before" -> [fr EXCEPT !.pc = "body", !.i = 0]
    [] OTHER -> [fr EXCEPT !.pc = "done", !.out = Ret(fr.r)]

\* run on from the statement fr is at to its next call, or to its end: loops
\* that have no (further) item are left, one after the other
RECURSIVE Advance(_)
Advance(fr) == IF InLoop(fr) /\ ~HasNext(fr) THEN Advance(FallThrough(fr)) ELSE fr

Top == stack[Len(stack)]
SetTop(fr) == [stack EXCEPT ![Len(stack)] = fr]

\* the caller calls the event: ev(*args, **kwargs)
Invoke(ev, args) ==
  /\ stack = <<>> /\ deco = NoDeco /\ last = Idle
  /\ IsEvent(ev)
  /\ stack' = <<Advance(NewFrame(ev, args))>>
  /\ last' = Idle
  /\ UNCHANGED <<heap, _events, deco>>

\* the dispatch calls a plain function: a condition, a subscriber or f
CallPlain ==
  /\ stack # <<>>
  /\ Top.pc # "done"
  /\ ~IsEvent(Callee(Top)) /\ Callee(Top) \notin RegisteringFns
  /\ LET out == Apply(Name(Callee(Top)), PassArgs(Top.args))
     IN stack' = SetTop(Advance(Settle(Ended(Issue(Top, Callee(Top)), out), out)))
  /\ UNCHANGED <<heap, _events, deco, last>>

\* the dispatch calls a callable that is itself an event: a nested dispatch,
\* or RecursionError when the interpreter's stack is full
CallEventDetached ==
  /\ stack # <<>>
  /\ Top.pc # "done"
  /\ IsEvent(Callee(Top))
  /\ IF Len(stack) < MaxDepth
     THEN stack' = Append(SetTop(Advance(Settle(
                             Ended(Issue(Top, Callee(Top)), Ret(None)), Ret(None)))),
                          Advance(NewFrame(Callee(Top), PassArgs(Top.args))))
     ELSE stack' = SetTop(Advance(Settle(
                      Ended(Issue(Top, Callee(Top)), Raise("RecursionError")),
                      Raise("RecursionError"))))
  /\ UNCHANGED <<heap, _events, deco, last>>
CallEvent ==
  /\ stack # <<>>
  /\ Top.pc # "done"
  /\ IsEvent(Callee(Top))
  /\ IF Len(stack) < MaxDepth
     THEN stack' = Append(SetTop(Issue(Top, Callee(Top))),
                          Advance(NewFrame(Callee(Top), PassArgs(Top.args))))
     ELSE stack' = SetTop(Advance(Settle(
                      Ended(Issue(Top, Callee(Top)), Raise("RecursionError")),
                      Raise("RecursionError"))))
  /\ UNCHANGED <<heap, _events, deco, last>>

\* the dispatch calls a hook that registers sub1 on the event being
\* dispatched, by the direct form, and returns True: the hook's own frame
\* is on the stack, its registration made, until it returns
Activation(f, ev, args) ==
  [ev |-> f, args |-> args, pc |-> "done", i |-> 0, r |-> None, calls |-> <<>>,
   out |-> IF Registered(ev) THEN Ret(BoolV(TRUE)) ELSE Raise("EventNotRegistered"),
   rec0 |-> EmptyRecord]
CallRegistering ==
  /\ stack # <<>>
  /\ Top.pc # "done"
  /\ Callee(Top) \in RegisteringFns
  /\ Size < MaxSize
  /\ _events' = IF Registered(Top.ev)
                THEN AppendHook(_events, Top.ev, ListIndex(RegOpOf(Callee(Top))), 101)
                ELSE _events
  /\ stack' = Append(SetTop(Issue(Top, Callee(Top))),
                     Activation(Callee(Top), Top.ev, PassArgs(Top.args)))
  /\ UNCHANGED <<heap, deco, last>>

\* calls_subs returns or raises: to the dispatch that called it, or to the caller
ReturnOneShot ==
  /\ stack # <<>>
  /\ Top.pc = "done"
  /\ IF Len(stack) = 1
     THEN /\ stack' = <<>>
          /\ _events' = SetRecord(_events, Top.ev, EmptyRecord)
     ELSE /\ stack' = [SubSeq(stack, 1, Len(stack) - 1) EXCEPT
                         ![Len(stack) - 1] = Advance(Settle(Ended(@, Top.out), Top.out))]
          /\ UNCHANGED _events
  /\ UNCHANGED <<heap, deco, last>>
Return ==
  /\ stack # <<>>
  /\ Top.pc = "done"
  /\ IF Len(stack) = 1
     THEN stack' = <<>>
     ELSE stack' = [SubSeq(stack, 1, Len(stack) - 1) EXCEPT
                      ![Len(stack) - 1] = Advance(Settle(Ended(@, Top.out), Top.out))]
  /\ UNCHANGED <<heap, _events, deco, last>>

\* ---------------------------------------------------------- specification
\* the callables a caller may register as hooks
Hooks == HookFns \cup {a \in Addrs : IsEvent(a)}

Next ==
  \/ \E f \in Bodies, a \in Addrs : Promote(f, a)
  \/ \E a \in Addrs : Define(a)
  \/ \E a \in Addrs : Drop(a)
  \/ \E op \in RegOps, ev \in Targets, fn \in Hooks : RegisterDirect(op, ev, fn)
  \/ \E op \in RegOps, ev \in Targets : MakeDecorator(op, ev)
  \/ \E g \in Hooks : ApplyDecorator(g)
  \/ ReleaseDecorator
  \/ Resume
  \/ \E ev \in Addrs, args \in ArgSets : Invoke(ev, args)
  \/ CallPlain
  \/ CallEvent
  \/ Return

Spec == Init /\ [][Next]_vars

\* the same library driven by a caller that registers voidargs-adapted
\* functions and other plain functions on its events
VoidHooks == {101, 102, 103} \cup VoidedFns
NextVoid ==
  \/ \E f \in Bodies, a \in Addrs : Promote(f, a)
  \/ \E op \in RegOps, ev \in Targets, fn \in VoidHooks : RegisterDirect(op, ev, fn)
  \/ \E op \in RegOps, ev \in Targets : MakeDecorator(op, ev)
  \/ \E g \in VoidHooks : ApplyDecorator(g)
  \/ ReleaseDecorator
  \/ Resume
  \/ \E ev \in Addrs, args \in ArgSets : Invoke(ev, args)
  \/ CallPlain
  \/ Return

SpecVoid == Init /\ [][NextVoid]_vars

\* the same library driven by a caller whose hooks register further hooks
\* while a dispatch is running
LiveHooks == {101} \cup RegisteringFns
NextLive ==
  \/ \E f \in Bodies, a \in Addrs : Promote(f, a)
  \/ \E op \in RegOps, ev \in Targets, fn \in LiveHooks : RegisterDirect(op, ev, fn)
  \/ ReleaseDecorator
  \/ Resume
  \/ \E ev \in Addrs, args \in ArgSets : Invoke(ev, args)
  \/ CallPlain
  \/ CallRegistering
  \/ Return

SpecLive == Init /\ [][NextLive]_vars

\* ================================================================ claims
Frames == {stack[n] : n \in 1..Len(stack)}
DoneFrames == {fr \in Frames : fr.pc = "done"}

\* a returned object that Python takes for false
IsFalsy(val) == val = None \/ val = BoolV(FALSE) \/ val = IntV(0)
RaisedIn(fr) == \E n \in 1..Len(fr.calls) : fr.calls[n].out.kind = "raise"
VetoedIn(fr) ==
  \E n \in 1..Len(fr.calls) :
    /\ fr.calls[n].ph = "cond"
    /\ fr.calls[n].out.kind = "ret"
    /\ IsFalsy(fr.calls[n].out.val)
\* a dispatch that has ended, was not vetoed and in which nothing raised
Clean(fr) ==
  fr.pc = "done" /\ fr.ev \in DOMAIN _events /\ ~RaisedIn(fr) /\ ~VetoedIn(fr)

CallPairs(fr) == [n \in 1..Len(fr.calls) |-> <<fr.calls[n].ph, fr.calls[n].fn>>]
Tagged(ph, l) == [n \in 1..Len(l) |-> <<ph, l[n]>>]
BeforeOf(ev) == _events[ev][1]
AfterOf(ev) == _events[ev][2]
ConditionsOf(ev) == _events[ev][3]
ExpectedCalls(fr) ==
  Tagged("cond", ConditionsOf(fr.ev)) \o Tagged("before", BeforeOf(fr.ev))
    \o << <<"body", heap[fr.ev].f>> >> \o Tagged("after", AfterOf(fr.ev))
PhaseCalls(fr, ph) == LET InPhase(c) == c.ph = ph IN SelectSeq(fr.calls, InPhase)
Count(g, l) == Cardinality({n \in 1..Len(l) : l[n] = g})
IsPrefix(l, m) == Len(l) <= Len(m) /\ \A n \in 1..Len(l) : l[n] = m[n]
\* the list a registration operation is documented to extend
ListOf(op) ==
  CASE op = "run_before" -> 1 [] op = "run_after" -> 2 [] op = "condition_for" -> 3

\* C1: a dispatch that is not vetoed and in which nothing raises calls every
\* condition, then every before-subscriber, then the body once, then every
\* after-subscriber, each list in registration order.
C1_CallOrder ==
  \A fr \in DoneFrames : Clean(fr) => CallPairs(fr) = ExpectedCalls(fr)
C1_Witness ==
  \E fr \in DoneFrames :
    /\ Clean(fr) /\ Len(fr.calls) = 3
    /\ fr.calls[1].ph = "cond" /\ fr.calls[2].ph = "body" /\ fr.calls[3].ph = "after"

\* C2 as stated: if any registered condition returns false for the arguments,
\* the dispatch runs no before-subscriber, no body, no after-subscriber and
\* yields None without raising.
ReturnsFalseFor(c, args) ==
  ~IsEvent(c) /\ Apply(Name(c), args) = Ret(BoolV(FALSE))
VetoTotal(fr) ==
  /\ \A n \in 1..Len(fr.calls) : fr.calls[n].ph = "cond"
  /\ fr.out = Ret(None)
C3_ReturnPassthrough ==
  \A fr \in DoneFrames :
    /\ Clean(fr) => fr.out = Apply(Name(heap[fr.ev].f), fr.args)
    /\ (VetoedIn(fr) /\ ~RaisedIn(fr)) => fr.out = Ret(None)
C3_Witness ==
  \E fr \in DoneFrames :
    /\ Clean(fr) /\ fr.out = Ret(IntV(9))
    /\ \E n \in 1..Len(fr.calls) :
         fr.calls[n].ph = "after" /\ fr.calls[n].out = Ret(BoolV(TRUE))

\* C4 as stated: a registration operation whose target was never promoted
\* by event() raises EventNotRegistered and leaves the registry unchanged.
C4_UnregisteredRejected ==
  [][(last'.op \in RegOps /\ last'.fn # 0 /\ ~IsEvent(last'.ref))
       => (last'.exc = "EventNotRegistered" /\ _events' = _events)]_vars

\* C5: a successful registration on E appends the subscriber to the end of
\* exactly one list of E's record (before for run_before, after for
\* run_after, conditions for condition_for); every other list of every
\* record stays as it was.
C5_OneListExtended ==
  [][(last'.fn # 0 /\ last'.exc = "")
       => /\ DOMAIN _events' = DOMAIN _events
          /\ _events'[last'.ref][ListOf(last'.op)]
               = Append(_events[last'.ref][ListOf(last'.op)], last'.fn)
          /\ \A k \in DOMAIN _events, n \in 1..3 :
               (k # last'.ref \/ n # ListOf(last'.op))
                 => _events'[k][n] = _events[k][n]]_vars
C5_Witness ==
  /\ last.fn # 0 /\ last.exc = ""
  /\ \E b \in Addrs : b # last.ref /\ IsEvent(b) /\ IsEvent(last.ref)

\* C6: right after event(body) the registry holds an empty record under the
\* new wrapper's handle, which is the handle of no other live object; the
\* records of all events still alive are as before; a registration on one
\* of two events promoted from the same callable leaves the other's record
\* as it was.
C6_PromotionEmptyRecord ==
  [][/\ last'.op = "event"
          => /\ ~Live(last'.ref)
             /\ last'.ref \in DOMAIN _events'
             /\ _events'[last'.ref] = EmptyRecord
             /\ \A b \in Addrs :
                  IsEvent(b) => b \in DOMAIN _events' /\ _events'[b] = _events[b]
     /\ (last'.fn # 0 /\ last'.exc = "")
          => \A b \in Addrs :
               (/\ IsEvent(b) /\ IsEvent(last'.ref) /\ b # last'.ref
                /\ heap[b].f = heap[last'.ref].f)
                 => _events'[b] = _events[b]]_vars
C6_Witness ==
  /\ last.op = "event"
  /\ _events[last.ref] = EmptyRecord
  /\ \E b \in Addrs :
       /\ b # last.ref /\ IsEvent(b) /\ heap[b].f = heap[last.ref].f
       /\ _events[b] # EmptyRecord

\* C7: hook lists are never deduplicated or reordered: a registration adds
\* one more occurrence at the end even when the subscriber is in the list
\* already, and an un-vetoed dispatch in which nothing raises calls the
\* subscriber at every position at which it is registered.
CalledAsRegistered(fr) ==
  \A ph \in {"cond", "before", "after"} :
    LET l == _events[fr.ev][PhaseIndex(ph)]
        c == PhaseCalls(fr, ph)
    IN /\ Len(c) = Len(l)
       /\ \A n \in 1..Len(l) : c[n].fn = l[n]
       /\ \A g \in {l[n] : n \in 1..Len(l)} :
            Count(g, l) = Cardinality({n \in 1..Len(c) : c[n].fn = g})
DuplicatesCalled == \A fr \in DoneFrames : Clean(fr) => CalledAsRegistered(fr)
C7_DuplicatesKept ==
  [][/\ (last'.fn # 0 /\ last'.exc = "")
          => LET old == _events[last'.ref][ListOf(last'.op)]
                 new == _events'[last'.ref][ListOf(last'.op)]
             IN /\ Count(last'.fn, new) = Count(last'.fn, old) + 1
                /\ IsPrefix(old, new)
     /\ DuplicatesCalled']_vars
C7_Witness ==
  \E fr \in DoneFrames :
    /\ Clean(fr)
    /\ Len(BeforeOf(fr.ev)) = 2 /\ BeforeOf(fr.ev)[1] = BeforeOf(fr.ev)[2]
    /\ Len(fr.calls) = 3
    /\ fr.calls[1].fn = fr.calls[2].fn /\ fr.calls[3].ph = "body"

\* C8: every condition, before-subscriber, body and after-subscriber of a
\* dispatch is called with the positional and keyword arguments the event
\* was invoked with, unchanged.
C8_SameArguments ==
  /\ \A fr \in Frames : \A n \in 1..Len(fr.calls) :
       /\ fr.calls[n].args = fr.args
       /\ (~IsEvent(fr.calls[n].fn) /\ fr.calls[n].out.kind # "none")
            => fr.calls[n].out = Apply(Name(fr.calls[n].fn), fr.args)
  /\ \A n \in 2..Len(stack) : stack[n].args = stack[n - 1].args
C8_Witness ==
  \E fr \in DoneFrames :
    /\ fr.args = MkArgs(<<1>>, << <<"y", 15>> >>)
    /\ Len(fr.calls) = 3
    /\ fr.calls[1].ph = "before" /\ fr.calls[3].ph = "after"
    /\ \A n \in 1..3 : fr.calls[n].args = MkArgs(<<1>>, << <<"y", 15>> >>)
    /\ fr.out = Ret(IntV(17))

\* C9: the direct form run_before(ev, fn) (and run_after, condition_for) on
\* a promoted ev appends fn once, at once, and returns the decorator, not
\* fn; every later application of that decorator to g appends g once more
\* to the same list of the same event.
C9_DirectForm ==
  [][/\ (last'.fn # 0 /\ last'.exc = "" /\ deco = NoDeco)
          => /\ _events'[last'.ref][ListOf(last'.op)]
                  = Append(_events[last'.ref][ListOf(last'.op)], last'.fn)
             /\ last'.tag = "decorator"
             /\ deco' = [op |-> last'.op, ev |-> last'.ref]
     /\ (last'.fn # 0 /\ last'.exc = "" /\ deco # NoDeco)
          => /\ last'.ref = deco.ev /\ last'.op = deco.op
             /\ _events'[deco.ev][ListOf(deco.op)]
                  = Append(_events[deco.ev][ListOf(deco.op)], last'.fn)
             /\ deco' = deco]_vars
C9_Witness ==
  /\ last.fn # 0 /\ last.exc = "" /\ last.tag = "decorator"
  /\ deco = [op |-> last.op, ev |-> last.ref]
  /\ IsEvent(deco.ev)
  /\ Len(_events[deco.ev][ListOf(deco.op)]) = 2
  /\ _events[deco.ev][ListOf(deco.op)][2] = last.fn

\* C10: when a before-subscriber raises, the dispatch ends there: the error
\* reaches the caller as it is, and no later before-subscriber, no body and
\* no after-subscriber is called.
C10_BeforeFailure ==
  \A fr \in Frames : \A n \in 1..Len(fr.calls) :
    (fr.calls[n].ph = "before" /\ fr.calls[n].out.kind = "raise")
      => /\ n = Len(fr.calls)
         /\ fr.pc = "done"
         /\ fr.out = fr.calls[n].out
C10_Witness ==
  \E fr \in DoneFrames :
    /\ fr.out = Raise("ValueError")
    /\ Len(fr.calls) = 1 /\ fr.calls[1].ph = "before"
    /\ Len(BeforeOf(fr.ev)) + Len(AfterOf(fr.ev)) = 2

\* C11: when an after-subscriber raises, the body has been called exactly
\* once before it and has returned, no later after-subscriber is called,
\* and the dispatch ends with that error instead of the body's result.
C11_AfterFailure ==
  \A fr \in Frames : \A n \in 1..Len(fr.calls) :
    (fr.calls[n].ph = "after" /\ fr.calls[n].out.kind = "raise")
      => /\ n = Len(fr.calls)
         /\ fr.pc = "done"
         /\ fr.out = fr.calls[n].out
         /\ Len(PhaseCalls(fr, "body")) = 1
         /\ PhaseCalls(fr, "body")[1].out.kind = "ret"
         /\ \E m \in 1..(n - 1) : fr.calls[m].ph = "body"
C11_Witness ==
  \E fr \in DoneFrames :
    /\ fr.out = Raise("ValueError")
    /\ Len(fr.calls) = 2
    /\ fr.calls[1].ph = "body" /\ fr.calls[1].out = Ret(IntV(7))
    /\ fr.calls[2].ph = "after"
    /\ Len(AfterOf(fr.ev)) = 2

\* C12 as stated: no registry entry is ever removed, and every list of every
\* record at a later state has its earlier content as a prefix.
C12_RegistryOnlyGrows ==
  [][\A k \in DOMAIN _events :
       /\ k \in DOMAIN _events'
       /\ \A n \in 1..3 : IsPrefix(_events[k][n], _events'[k][n])]_vars

\* C13: the key of an event is its wrapper's address for as long as the
\* wrapper lives and no other live event has it: a promotion takes an
\* address no live object has, every live event has a record, no dispatch
\* fails to find its record, and the record of a live event starts empty
\* at its promotion and changes only by a registration against that event.
LookupNeverFails ==
  \A fr \in Frames : IsEvent(fr.ev) /\ fr.out # Raise("KeyError")
C13_HandleStable ==
  [][/\ last'.op = "event"
          => /\ ~Live(last'.ref)
             /\ heap'[last'.ref].kind = "event"
             /\ last'.ref \in DOMAIN _events'
             /\ _events'[last'.ref] = EmptyRecord
     /\ \A a \in Addrs : IsEvent(a)' => a \in DOMAIN _events'
     /\ LookupNeverFails'
     /\ \A a \in Addrs :
          (IsEvent(a) /\ IsEvent(a)')
            => /\ heap'[a] = heap[a]
               /\ IF last'.fn # 0 /\ last'.exc = "" /\ last'.ref = a
                  THEN _events'[a] = [_events[a] EXCEPT
                                       ![ListOf(last'.op)] = Append(@, last'.fn)]
                  ELSE _events'[a] = _events[a]]_vars
C13_Witness ==
  \E fr \in DoneFrames :
    /\ Clean(fr) /\ Len(fr.calls) = 2
    /\ fr.rec0 = _events[fr.ev]
    /\ \E b \in Addrs : b # fr.ev /\ IsEvent(b) /\ _events[b] # _events[fr.ev]

\* C14: when a condition returns false, the calls of the dispatch so far
\* are the conditions up to and including that one, each once and in
\* registration order, all earlier ones having returned true; no further
\* condition (and nothing else) is called.
C14_ShortCircuit ==
  \A fr \in Frames : \A n \in 1..Len(fr.calls) :
    (fr.calls[n].ph = "cond" /\ fr.calls[n].out.kind = "ret"
       /\ IsFalsy(fr.calls[n].out.val))
      => /\ n = Len(fr.calls)
         /\ fr.pc = "done"
         /\ n <= Len(ConditionsOf(fr.ev))
         /\ \A m \in 1..n :
              /\ fr.calls[m].ph = "cond"
              /\ fr.calls[m].fn = ConditionsOf(fr.ev)[m]
         /\ \A m \in 1..(n - 1) :
              fr.calls[m].out.kind = "ret" /\ ~IsFalsy(fr.calls[m].out.val)
C14_Witness ==
  \E fr \in DoneFrames :
    /\ Len(ConditionsOf(fr.ev)) = 2
    /\ Len(fr.calls) = 1
    /\ fr.calls[1].fn = ConditionsOf(fr.ev)[1]
    /\ fr.calls[1].out = Ret(BoolV(FALSE))

\* C15: no step of a dispatch (the invocation, a call of a condition, a
\* subscriber or the body, a nested dispatch, the return, whether the
\* dispatch is vetoed, completes or is aborted by a raising hook) changes
\* the set of registry keys or any list of any record, the callees being
\* functions that call neither a registration operation nor event().
C15_DispatchKeepsRegistry ==
  [][(stack # <<>> \/ stack' # <<>>) => _events' = _events]_vars
C15_Witness ==
  /\ Len(stack) = 1
  /\ Top.pc = "done" /\ Top.out = Raise("ValueError")
  /\ Len(Top.calls) = 2
  /\ _events[Top.ev] = Top.rec0
  /\ Cardinality(DOMAIN _events) = 2

\* C16 as stated: a condition that returns no value (a voidargs-adapted
\* function whose fn returns, or sub1) vetoes every dispatch of its event.
ReturnsNothing == {101, Voided(105)}
HasMuteCondition(ev) ==
  \E n \in 1..Len(ConditionsOf(ev)) : ConditionsOf(ev)[n] \in ReturnsNothing
VoidedAsCoded(c) ==
  LET v == voided(Inner(c.fn), c.args)
  IN /\ Len(v.calls) = 1
     /\ v.calls[1].fn = Inner(c.fn)
     /\ v.calls[1].args = NoArgs
     /\ v.calls[1].out = Apply(Name(Inner(c.fn)), NoArgs)
     /\ c.out = v.out
     /\ v.calls[1].out.kind = "ret" => c.out = Ret(None)
     /\ v.calls[1].out.kind = "raise" => c.out = v.calls[1].out
C17_DeferredCheck ==
  [][/\ (last'.op \in RegOps /\ last'.fn = 0)
          => /\ last'.exc = "" /\ last'.tag = "decorator"
             /\ deco' = [op |-> last'.op, ev |-> last'.ref]
             /\ _events' = _events
     /\ (last'.op \in RegOps /\ last'.fn # 0)
          => (last'.exc = "EventNotRegistered" <=> ~Registered(last'.ref))
     /\ last'.exc = "EventNotRegistered"
          => last'.op \in RegOps /\ last'.fn # 0 /\ _events' = _events]_vars
C17_Witness ==
  /\ deco.ev = 101 /\ deco.op \in RegOps
  /\ last.exc = "EventNotRegistered"
  /\ last.ref = 101 /\ last.fn # 0
  /\ _events # <<>>

\* C18: calls_subs iterates the lists of the record themselves: a hook
\* appended to a list of E by a hook of a running dispatch of E is called by
\* that dispatch if and only if the loop over that list has not ended yet
\* (the appending hook runs in that loop or in an earlier one); the record
\* holds every appended hook, so the others are called from the next
\* dispatch on.
EventFrames == {fr \in Frames : IsEvent(fr.ev)}
Order(ph) ==
  CASE ph = "cond" -> 1 [] ph = "before" -> 2 [] ph = "body" -> 3 [] OTHER -> 4
\* the hooks appended to list q of fr's event by the calls fr has made in
\* the loops up to the one of rank upto
AppendedIn(fr, q, upto) ==
  LET Appends(c) == /\ c.fn \in RegisteringFns
                    /\ ListIndex(RegOpOf(c.fn)) = q
                    /\ Order(c.ph) <= upto
      sel == SelectSeq(fr.calls, Appends)
  IN [n \in 1..Len(sel) |-> 101]
LiveList(fr, ph) ==
  fr.rec0[PhaseIndex(ph)] \o AppendedIn(fr, PhaseIndex(ph), Order(ph))
ExpectedLive(fr) ==
  Tagged("cond", LiveList(fr, "cond")) \o Tagged("before", LiveList(fr, "before"))
    \o << <<"body", heap[fr.ev].f>> >> \o Tagged("after", LiveList(fr, "after"))
C18_LiveLists ==
  \A fr \in EventFrames :
    /\ \A q \in 1..3 : _events[fr.ev][q] = fr.rec0[q] \o AppendedIn(fr, q, 4)
    /\ IsPrefix(CallPairs(fr), ExpectedLive(fr))
    /\ Clean(fr) => CallPairs(fr) = ExpectedLive(fr)
C18_Witness ==
  \E fr \in EventFrames :
    /\ Clean(fr)
    /\ fr.rec0 = << <<111>>, <<>>, <<>> >>
    /\ _events[fr.ev] = << <<111, 101>>, <<>>, <<>> >>
    /\ CallPairs(fr) = << <<"before", 111>>, <<"before", 101>>, <<"body", 104>> >>

\* C19: with callees that return or raise and register nothing, a running
\* dispatch always has a next step, every step of it lowers a measure that
\* cannot go below zero, so it ends: with a result, with None or with an
\* error; and it makes at most len(conditions) + len(before) + 1 +
\* len(after) calls, the lengths taken when it was invoked.
CallBound(rec) == Len(rec[3]) + Len(rec[1]) + 1 + Len(rec[2])
Base == MaxSize + 2
RECURSIVE Pow(_, _)
Pow(b, e) == IF e = 0 THEN 1 ELSE b * Pow(b, e - 1)
Rank(fr) == CallBound(fr.rec0) - Len(fr.calls) + 1
RECURSIVE Measure(_)
Measure(n) ==
  IF n = 0 THEN 0
  ELSE Rank(stack[n]) * Pow(Base, MaxDepth - n) + Measure(n - 1)
CallsBounded ==
  \A fr \in Frames :
    /\ Len(fr.calls) <= CallBound(fr.rec0)
    /\ fr.pc = "done" => fr.out.kind \in {"ret", "raise"}
NeverStuck == stack # <<>> => ENABLED (CallPlain \/ CallEvent \/ Return)
C19_Terminates ==
  /\ [](CallsBounded /\ NeverStuck)
  /\ [][stack # <<>> => Measure(Len(stack))' < Measure(Len(stack))]_vars
C19_Witness ==
  /\ Len(stack) = 1
  /\ Top.pc = "done" /\ Top.out.kind = "ret"
  /\ Len(Top.calls) = 3
  /\ CallBound(Top.rec0) = 3

\* C20: a dispatch started by a callee of another dispatch runs inside that
\* one call: while it runs, the outer dispatch stays where it is, its call
\* open; the inner dispatch has ended (result, veto or error) when control
\* comes back; the outer one then takes the inner outcome as the outcome of
\* that call and goes on from its position, its calls still in the order
\* conditions, before-subscribers, body, after-subscribers.
Pending(fr) == {n \in 1..Len(fr.calls) : fr.calls[n].out = NoOutcome}
InOrder(fr) == IsPrefix(CallPairs(fr), ExpectedCalls(fr))
Nested ==
  \A n \in 1..Len(stack) :
    /\ InOrder(stack[n])
    /\ IF n < Len(stack)
       THEN /\ Pending(stack[n]) = {Len(stack[n].calls)}
            /\ stack[n].pc # "done"
            /\ stack[n].calls[Len(stack[n].calls)].fn = stack[n + 1].ev
            /\ stack[n].calls[Len(stack[n].calls)].fn = Callee(stack[n])
       ELSE Pending(stack[n]) = {}
C20_StrictlyNested ==
  /\ []Nested
  /\ [][/\ (Len(stack) >= 2 /\ Len(stack') >= Len(stack))
             => \A n \in 1..(Len(stack) - 1) : stack'[n] = stack[n]
        /\ (Len(stack) >= 1 /\ Len(stack') = Len(stack) + 1)
             => LET p == stack[Len(stack)]
                    q == stack'[Len(stack)]
                IN /\ q.pc = p.pc /\ q.i = p.i /\ q.r = p.r
                   /\ SubSeq(q.calls, 1, Len(p.calls)) = p.calls
        /\ (Len(stack) >= 2 /\ Len(stack') = Len(stack) - 1)
             => LET c == stack[Len(stack)]
                    p == stack[Len(stack) - 1]
                    q == stack'[Len(stack) - 1]
                    k == Len(p.calls)
                IN /\ c.pc = "done" /\ c.out.kind \in {"ret", "raise"}
                   /\ Pending(c) = {}
                   /\ (c.out.kind = "ret" /\ ~VetoedIn(c))
                        => CallPairs(c) = ExpectedCalls(c)
                   /\ Len(q.calls) = k
                   /\ q.calls[k] = [p.calls[k] EXCEPT !.out = c.out]
                   /\ SubSeq(q.calls, 1, k - 1) = SubSeq(p.calls, 1, k - 1)
                   /\ q = Advance(Settle(Ended(p, c.out), c.out))
                   /\ c.out.kind = "raise" => q.pc = "done" /\ q.out = c.out
                   /\ \A n \in 1..(Len(stack) - 2) : stack'[n] = stack[n]]_vars
C20_Witness ==
  /\ Len(stack) = 1 /\ Top.pc = "done"
  /\ Len(Top.calls) = 2
  /\ Top.calls[1].ph = "before" /\ IsEvent(Top.calls[1].fn)
  /\ Top.calls[1].fn # Top.ev
  /\ Top.calls[1].out = Ret(IntV(7))
  /\ Top.calls[2].ph = "body"
  /\ Top.out = Ret(IntV(7))

====
